---- MODULE Spec2Model ----
(***************************************************************************)
(* Medical knowledge-graph RAG system: main() of main.py together with the *)
(* OptimizedMedicalChain of utils.py.  One run of main(): start-up         *)
(* (connections, three-tier graph QA chain, optimized chain), then the     *)
(* interactive question loop, then the system object handed back to the    *)
(* caller.  The database, the language model and the chain library are     *)
(* the environment: every call into them either returns or raises.         *)
(***************************************************************************)
EXTENDS Integers, Sequences, FiniteSets, TLC

\* Longest input line typed at the prompt (characters).
MaxLineLen == 2
\* Number of loop turns whose outcome is remembered in history.
MaxTurns == 3

\* Characters of an input line: a blank and a non-blank.
Chars == {" ", "q"}
\* Texts carried by exceptions of the database and of the language model.
DbErrors == {"CypherSyntaxError", "ServiceUnavailable"}
LlmErrors == {"APITimeoutError"}
\* Outcomes of GraphCypherQAChain.from_llm.
FromLlmOutcomes == {"ok", "ImportError", "Exception"}

None == "None"
NoExc == [type |-> "None", msg |-> ""]

VARIABLES
    pc,                       \* position of main()
    importable,               \* which packages export GraphCypherQAChain
    graph,                    \* MedicalRAGSystem.graph is set
    conn_result,              \* result of the connection test query
    llm,                      \* MedicalRAGSystem.llm is set
    graph_qa_chain,           \* MedicalRAGSystem.graph_qa_chain
    attempts,                 \* tiers setup_rag_system has attempted, in order
    setup_caught,             \* exception types its except clauses caught, in order
    optimized_chain,          \* OptimizedMedicalChain.optimized_chain is set
    optimized_chain_verbose,  \* OptimizedMedicalChain.optimized_chain_verbose is set
    exc,                      \* exception in flight / that ended the run
    line,                     \* the line input() returned in the current turn
    user_question,            \* stripped input line of the current turn
    chain,                    \* chain object being invoked in the current request
    calls,                    \* calls made for the current request, in order
    db_error,                 \* text of the database error of the current request
    output,                   \* what the current turn has printed / returned
    history                   \* outcomes of the finished turns

vars == <<pc, importable, graph, conn_result, llm, graph_qa_chain, attempts,
          setup_caught, optimized_chain, optimized_chain_verbose, exc, line,
          user_question, chain, calls, db_error, output, history>>

sysVars == <<graph, conn_result, llm, graph_qa_chain, attempts, setup_caught>>
ocVars == <<optimized_chain, optimized_chain_verbose>>
turnVars == <<line, user_question, chain, calls, db_error, output>>

----------------------------------------------------------------------------
\* Pure helpers

Exc(t, m) == [type |-> t, msg |-> m]
Msg(k, t) == [kind |-> k, text |-> t]

\* str.strip() on an input line: leading and trailing blanks removed.
RECURSIVE LStrip(_)
LStrip(s) == IF s # <<>> /\ Head(s) = " " THEN LStrip(Tail(s)) ELSE s

RECURSIVE RStrip(_)
RStrip(s) ==
    IF s # <<>> /\ s[Len(s)] = " " THEN RStrip(SubSeq(s, 1, Len(s) - 1)) ELSE s

\* Faulty variant of Strip: the line is used as typed.
Strip_Omitted(s) == s

Strip(s) == RStrip(LStrip(s))

\* All input lines of up to MaxLineLen characters.
Lines == UNION {[1..n -> Chars] : n \in 0..MaxLineLen}

\* `if not user_question` in the loop of main.
IsEmptyQuestion(q) == q = <<>>

\* Faulty variant of Str: the exception's class name instead of its text.
Str_TypeName(e) == e.type

\* str(e) as used in the loop's error message: the exception's text.
Str(e) == e.msg

\* Faulty variant of PreferredFailureHandler: every failure of the preferred
\* tier goes on to the community chain.
PreferredFailureHandler_AlwaysCommunity(t) == "rag_community"

\* setup_rag_system's except clauses for a failure of the preferred tier:
\* ImportError goes on to the community chain, anything else to the manual one.
PreferredFailureHandler(t) ==
    IF t = "ImportError" THEN "rag_community" ELSE "rag_manual"

\* Faulty variant of CaughtPerQuestion: the clause catches ValueError only.
CaughtPerQuestion_ValueErrorOnly(e) == e.type = "ValueError"

\* `except Exception` of the loop's inner try: KeyboardInterrupt is no Exception.
CaughtPerQuestion(e) == e.type \notin {"None", "KeyboardInterrupt"}

\* OptimizedMedicalChain.is_available
is_available == optimized_chain

----------------------------------------------------------------------------
Init ==
    /\ pc = "import_utils"
    /\ importable \in [neo4j : BOOLEAN, community : BOOLEAN]
    /\ graph = FALSE
    /\ conn_result = None
    /\ llm = FALSE
    /\ graph_qa_chain = None
    /\ attempts = <<>>
    /\ setup_caught = <<>>
    /\ optimized_chain = FALSE
    /\ optimized_chain_verbose = FALSE
    /\ exc = NoExc
    /\ line = <<>>
    /\ user_question = <<>>
    /\ chain = None
    /\ calls = <<>>
    /\ db_error = ""
    /\ output = <<>>
    /\ history = <<>>

\* An exception that leaves main() uncaught.
Abort(e) ==
    /\ pc' = "aborted"
    /\ exc' = e

----------------------------------------------------------------------------
\* Start-up

\* main: from utils import create_optimized_chain; utils imports
\* GraphCypherQAChain from langchain_neo4j at module level.
ImportUtils ==
    /\ pc = "import_utils"
    /\ IF importable.neo4j
         THEN pc' = "conn_graph" /\ exc' = exc
         ELSE Abort(Exc("ImportError", "langchain_neo4j"))
    /\ UNCHANGED <<importable, sysVars, ocVars, turnVars, history>>

\* setup_connections: self.graph = Neo4jGraph(...)
ConnectGraph ==
    /\ pc = "conn_graph"
    /\ \/ /\ graph' = TRUE
          /\ pc' = "conn_test"
          /\ exc' = exc
       \/ /\ \E m \in DbErrors : Abort(Exc("ConnectionError", m))
          /\ graph' = graph
    /\ UNCHANGED <<importable, conn_result, llm, graph_qa_chain, attempts,
                   setup_caught, ocVars, turnVars, history>>

\* Faulty variant of ConnectionTest: a failed test query is swallowed.
ConnectionTest_Unchecked ==
    /\ pc = "conn_test"
    /\ \/ conn_result' = "ok"
       \/ conn_result' = conn_result
    /\ pc' = "conn_llm"
    /\ UNCHANGED <<importable, graph, llm, graph_qa_chain, attempts,
                   setup_caught, ocVars, exc, turnVars, history>>

\* setup_connections: result = self.graph.query("RETURN 'Connection successful!' ...")
ConnectionTest ==
    /\ pc = "conn_test"
    /\ \/ /\ conn_result' = "ok"
          /\ pc' = "conn_llm"
          /\ exc' = exc
       \/ /\ \E m \in DbErrors : Abort(Exc("ConnectionError", m))
          /\ conn_result' = conn_result
    /\ UNCHANGED <<importable, graph, llm, graph_qa_chain, attempts,
                   setup_caught, ocVars, turnVars, history>>

\* setup_connections: self.llm = AzureChatOpenAI(...)
ConnectLlm ==
    /\ pc = "conn_llm"
    /\ \/ /\ llm' = TRUE
          /\ pc' = "rag_check"
          /\ exc' = exc
       \/ /\ \E m \in LlmErrors : Abort(Exc("ConnectionError", m))
          /\ llm' = llm
    /\ UNCHANGED <<importable, graph, conn_result, graph_qa_chain, attempts,
                   setup_caught, ocVars, turnVars, history>>

\* setup_rag_system: the guard, then the import of the preferred chain class
\* (in a run of main() that import has already succeeded once, in utils).
RagImportPreferred ==
    /\ pc = "rag_check"
    /\ IF ~graph \/ ~llm
         THEN /\ Abort(Exc("ValueError", "Connections must be established first"))
              /\ UNCHANGED <<attempts, setup_caught>>
         ELSE /\ attempts' = Append(attempts, "neo4j")
              /\ exc' = exc
              /\ IF importable.neo4j
                   THEN /\ pc' = "rag_construct"
                        /\ setup_caught' = setup_caught
                   ELSE /\ pc' = PreferredFailureHandler("ImportError")
                        /\ setup_caught' = Append(setup_caught, "ImportError")
    /\ UNCHANGED <<importable, graph, conn_result, llm, graph_qa_chain,
                   ocVars, turnVars, history>>

\* setup_rag_system: GraphCypherQAChain.from_llm of langchain_neo4j.
RagConstructPreferred ==
    /\ pc = "rag_construct"
    /\ \E o \in FromLlmOutcomes :
         IF o = "ok"
           THEN /\ graph_qa_chain' = "neo4j"
                /\ setup_caught' = setup_caught
                /\ pc' = "schema"
           ELSE /\ graph_qa_chain' = graph_qa_chain
                /\ setup_caught' = Append(setup_caught, o)
                /\ pc' = PreferredFailureHandler(o)
    /\ UNCHANGED <<importable, graph, conn_result, llm, attempts, exc,
                   ocVars, turnVars, history>>

\* setup_rag_system, except ImportError: the import of the community chain
\* class stands outside the inner try, so its ImportError leaves the method.
RagImportCommunity ==
    /\ pc = "rag_community"
    /\ attempts' = Append(attempts, "community")
    /\ IF importable.community
         THEN pc' = "rag_construct_community" /\ exc' = exc
         ELSE Abort(Exc("ImportError", "langchain_community"))
    /\ UNCHANGED <<importable, graph, conn_result, llm, graph_qa_chain,
                   setup_caught, ocVars, turnVars, history>>

\* setup_rag_system, except ImportError: from_llm of the community chain in
\* its own try; any exception goes on to the manual function.
RagConstructCommunity ==
    /\ pc = "rag_construct_community"
    /\ \E o \in FromLlmOutcomes :
         IF o = "ok"
           THEN /\ graph_qa_chain' = "community"
                /\ setup_caught' = setup_caught
                /\ pc' = "schema"
           ELSE /\ graph_qa_chain' = graph_qa_chain
                /\ setup_caught' = Append(setup_caught, o)
                /\ pc' = "rag_manual"
    /\ UNCHANGED <<importable, graph, conn_result, llm, attempts, exc,
                   ocVars, turnVars, history>>

\* _setup_simple_graph_qa: the function simple_graph_qa becomes the QA chain.
SetupSimpleGraphQA ==
    /\ pc = "rag_manual"
    /\ attempts' = Append(attempts, "manual")
    /\ graph_qa_chain' = "manual"
    /\ pc' = "schema"
    /\ UNCHANGED <<importable, graph, conn_result, llm, setup_caught, exc,
                   ocVars, turnVars, history>>

\* main: print(medical_rag.get_schema())
DisplaySchema ==
    /\ pc = "schema"
    /\ IF ~graph
         THEN Abort(Exc("ValueError", "Graph connection not established"))
         ELSE pc' = "oc_clean" /\ exc' = exc
    /\ UNCHANGED <<importable, sysVars, ocVars, turnVars, history>>

\* _setup_chains: the non-verbose chain; a failure clears both chains.
SetupChainClean ==
    /\ pc = "oc_clean"
    /\ \/ /\ optimized_chain' = TRUE
          /\ optimized_chain_verbose' = optimized_chain_verbose
          /\ pc' = "oc_verbose"
       \/ /\ optimized_chain' = FALSE
          /\ optimized_chain_verbose' = FALSE
          /\ pc' = "diseases"
    /\ UNCHANGED <<importable, sysVars, exc, turnVars, history>>

\* Faulty variant of SetupChainVerbose: a failure of the verbose chain leaves
\* the non-verbose chain in place.
SetupChainVerbose_KeepsClean ==
    /\ pc = "oc_verbose"
    /\ \/ optimized_chain_verbose' = TRUE
       \/ optimized_chain_verbose' = FALSE
    /\ optimized_chain' = optimized_chain
    /\ pc' = "diseases"
    /\ UNCHANGED <<importable, sysVars, exc, turnVars, history>>

\* _setup_chains: the verbose chain; a failure clears both chains.
SetupChainVerbose ==
    /\ pc = "oc_verbose"
    /\ \/ /\ optimized_chain_verbose' = TRUE
          /\ optimized_chain' = optimized_chain
       \/ /\ optimized_chain' = FALSE
          /\ optimized_chain_verbose' = FALSE
    /\ pc' = "diseases"
    /\ UNCHANGED <<importable, sysVars, exc, turnVars, history>>

\* main: the listing of available diseases; its failure is printed and ignored.
CheckDiseases ==
    /\ pc = "diseases"
    /\ \E ok \in BOOLEAN : pc' = "read"
    /\ UNCHANGED <<importable, sysVars, ocVars, exc, turnVars, history>>

----------------------------------------------------------------------------
\* The interactive loop of main

\* Positions inside the inner try of the loop.
RequestPcs == {"dispatch", "ask_clean", "test_basic_query", "invoke_synth",
               "invoke_exec", "invoke_answer", "invoke_returned"}

\* user_question = input(...).strip(): a line, Ctrl+C or end of input.
ReadInput ==
    /\ pc = "read"
    /\ \/ /\ Len(history) < MaxTurns
          /\ \E l \in Lines : line' = l /\ user_question' = Strip(l)
          /\ pc' = "check_empty"
          /\ exc' = exc
       \/ /\ pc' = "interrupted"
          /\ exc' = Exc("KeyboardInterrupt", "")
          /\ line' = <<>>
          /\ user_question' = <<>>
       \/ /\ Abort(Exc("EOFError", "EOF when reading a line"))
          /\ line' = <<>>
          /\ user_question' = <<>>
    /\ chain' = None
    /\ calls' = <<>>
    /\ db_error' = ""
    /\ output' = <<>>
    /\ UNCHANGED <<importable, sysVars, ocVars, history>>

\* if not user_question: print("Please enter a valid question."); continue
CheckEmpty ==
    /\ pc = "check_empty"
    /\ IF IsEmptyQuestion(user_question)
         THEN /\ output' = Append(output, Msg("invalid_question", ""))
              /\ history' = Append(history, "rejected")
              /\ pc' = "read"
         ELSE /\ output' = Append(output, Msg("processing", "question"))
              /\ history' = history
              /\ pc' = "dispatch"
    /\ UNCHANGED <<importable, sysVars, ocVars, exc, line, user_question, chain,
                   calls, db_error>>

\* if optimized_chain.is_available(): ask_medical_question_clean(...)
\* else: test_basic_query(...)
Dispatch ==
    /\ pc = "dispatch"
    /\ IF is_available
         THEN /\ calls' = Append(calls, "ask_medical_question_clean")
              /\ pc' = "ask_clean"
         ELSE /\ calls' = Append(calls, "test_basic_query")
              /\ pc' = "test_basic_query"
    /\ UNCHANGED <<importable, sysVars, ocVars, exc, line, user_question, chain,
                   db_error, output, history>>

\* Faulty variant of AskMedicalQuestionClean: the response block is printed
\* before the chain is invoked.
AskMedicalQuestionClean_PrintsFirst ==
    /\ pc = "ask_clean"
    /\ IF ~optimized_chain
         THEN /\ exc' = Exc("ValueError", "Optimized chains not available")
              /\ UNCHANGED <<chain, output>>
              /\ pc' = "except"
         ELSE /\ chain' = IF optimized_chain_verbose THEN "verbose" ELSE "clean"
              /\ output' = Append(output, Msg("response", "answer"))
              /\ exc' = exc
              /\ pc' = "invoke_synth"
    /\ UNCHANGED <<importable, sysVars, ocVars, line, user_question, calls,
                   db_error, history>>

\* ask_medical_question_clean up to the invoke: the guard, the choice of chain.
AskMedicalQuestionClean ==
    /\ pc = "ask_clean"
    /\ IF ~optimized_chain
         THEN /\ exc' = Exc("ValueError", "Optimized chains not available")
              /\ chain' = chain
              /\ pc' = "except"
         ELSE /\ chain' = IF optimized_chain_verbose THEN "verbose" ELSE "clean"
              /\ exc' = exc
              /\ pc' = "invoke_synth"
    /\ UNCHANGED <<importable, sysVars, ocVars, line, user_question, calls,
                   db_error, output, history>>

\* test_basic_query up to the invoke: graph_qa_chain.invoke is looked up on
\* whatever setup_rag_system installed; a plain function has no such attribute.
TestBasicQuery ==
    /\ pc = "test_basic_query"
    /\ IF graph_qa_chain = None
         THEN /\ exc' = Exc("ValueError", "RAG system not set up")
              /\ UNCHANGED <<chain, output>>
              /\ pc' = "except"
         ELSE /\ output' = Append(output, Msg("testing_with", "question"))
              /\ IF graph_qa_chain = "manual"
                   THEN /\ exc' = Exc("AttributeError",
                                      "'function' object has no attribute 'invoke'")
                        /\ chain' = chain
                        /\ pc' = "except"
                   ELSE /\ chain' = graph_qa_chain
                        /\ exc' = exc
                        /\ pc' = "invoke_synth"
    /\ UNCHANGED <<importable, sysVars, ocVars, line, user_question, calls,
                   db_error, history>>

\* chain.invoke, first step: the language model writes the Cypher query.
ChainGenerateCypher ==
    /\ pc = "invoke_synth"
    /\ calls' = Append(calls, "llm")
    /\ \/ pc' = "invoke_exec" /\ exc' = exc
       \/ \E m \in LlmErrors : exc' = Exc("LLMServiceError", m) /\ pc' = "except"
    /\ UNCHANGED <<importable, sysVars, ocVars, line, user_question, chain,
                   db_error, output, history>>

\* chain.invoke, second step: the query runs against the database.
ChainExecuteQuery ==
    /\ pc = "invoke_exec"
    /\ calls' = Append(calls, "db")
    /\ \/ pc' = "invoke_answer" /\ UNCHANGED <<exc, db_error>>
       \/ \E m \in DbErrors :
            /\ db_error' = m
            /\ exc' = Exc("QueryExecutionError", m)
            /\ pc' = "except"
    /\ UNCHANGED <<importable, sysVars, ocVars, line, user_question, chain,
                   output, history>>

\* chain.invoke, third step: the language model writes the answer.
ChainAnswer ==
    /\ pc = "invoke_answer"
    /\ calls' = Append(calls, "llm")
    /\ \/ pc' = "invoke_returned" /\ exc' = exc
       \/ \E m \in LlmErrors : exc' = Exc("LLMServiceError", m) /\ pc' = "except"
    /\ UNCHANGED <<importable, sysVars, ocVars, line, user_question, chain,
                   db_error, output, history>>

\* After invoke returned: the response block with the disclaimer
\* (ask_medical_question_clean) or the raw result (test_basic_query).
PrintResult ==
    /\ pc = "invoke_returned"
    /\ output' = IF chain \in {"verbose", "clean"}
                   THEN output \o <<Msg("response", "answer"), Msg("disclaimer", "")>>
                   ELSE Append(output, Msg("result", "answer"))
    /\ history' = Append(history, "answered")
    /\ pc' = "read"
    /\ UNCHANGED <<importable, sysVars, ocVars, exc, line, user_question, chain,
                   calls, db_error>>

\* Ctrl+C while a question is being processed.
Interrupt ==
    /\ pc \in RequestPcs
    /\ exc' = Exc("KeyboardInterrupt", "")
    /\ pc' = "except"
    /\ UNCHANGED <<importable, sysVars, ocVars, turnVars, history>>

\* Faulty variant of CatchError: a failed question switches the optimized
\* chain off for the rest of the run.
CatchError_DisablesChain ==
    /\ pc = "except"
    /\ IF CaughtPerQuestion(exc)
         THEN /\ output' = Append(output, Msg("error_processing", Str(exc)))
              /\ history' = Append(history, "failed")
              /\ exc' = NoExc
              /\ optimized_chain' = FALSE
              /\ optimized_chain_verbose' = FALSE
              /\ pc' = "read"
         ELSE /\ UNCHANGED <<output, history, exc, ocVars>>
              /\ pc' = IF exc.type = "KeyboardInterrupt"
                         THEN "interrupted" ELSE "aborted"
    /\ UNCHANGED <<importable, sysVars, line, user_question, chain,
                   calls, db_error>>

\* except Exception as e: print("Error processing question: ...") and go on;
\* what that clause does not catch leaves the loop.
CatchError ==
    /\ pc = "except"
    /\ IF CaughtPerQuestion(exc)
         THEN /\ output' = Append(output, Msg("error_processing", Str(exc)))
              /\ history' = Append(history, "failed")
              /\ exc' = NoExc
              /\ pc' = "read"
         ELSE /\ UNCHANGED <<output, history, exc>>
              /\ pc' = IF exc.type = "KeyboardInterrupt"
                         THEN "interrupted" ELSE "aborted"
    /\ UNCHANGED <<importable, sysVars, ocVars, line, user_question, chain,
                   calls, db_error>>

\* except KeyboardInterrupt: the goodbye message; return medical_rag.
Goodbye ==
    /\ pc = "interrupted"
    /\ output' = Append(output, Msg("goodbye", ""))
    /\ exc' = NoExc
    /\ pc' = "returned"
    /\ UNCHANGED <<importable, sysVars, ocVars, line, user_question, chain,
                   calls, db_error, history>>

----------------------------------------------------------------------------
\* simple_graph_qa, called as the function it is by the holder of the system
\* object that main() returned.

\* graph_qa_chain(question) on the manually installed function.
CallSimpleGraphQA ==
    /\ pc = "returned"
    /\ graph_qa_chain = "manual"
    /\ \E l \in Lines : line' = l /\ user_question' = l
    /\ chain' = "manual"
    /\ calls' = <<"simple_graph_qa">>
    /\ db_error' = ""
    /\ output' = <<>>
    /\ exc' = NoExc
    /\ pc' = "sgq_synth"
    /\ UNCHANGED <<importable, sysVars, ocVars, history>>

\* simple_graph_qa: response = self.llm.invoke(cypher_prompt); an error of the
\* language model is raised to the caller.
SgqGenerateCypher ==
    /\ pc = "sgq_synth"
    /\ calls' = Append(calls, "llm")
    /\ \/ /\ output' = Append(output, Msg("generated_cypher", "query"))
          /\ exc' = exc
          /\ pc' = "sgq_exec"
       \/ /\ \E m \in LlmErrors : exc' = Exc("LLMServiceError", m)
          /\ output' = output
          /\ pc' = "returned"
    /\ UNCHANGED <<importable, sysVars, ocVars, line, user_question, chain,
                   db_error, history>>

\* Faulty variant of SgqExecuteQuery: a failed query is executed once more.
SgqExecuteQuery_Retry ==
    /\ pc = "sgq_exec"
    /\ \/ /\ calls' = Append(calls, "db")
          /\ output' = Append(output, Msg("returned_records", "records"))
          /\ db_error' = db_error
       \/ \E m \in DbErrors :
            /\ calls' = calls \o <<"db", "db">>
            /\ db_error' = m
            /\ output' = Append(output, Msg("query_execution_error", m))
    /\ pc' = "returned"
    /\ UNCHANGED <<importable, sysVars, ocVars, exc, line, user_question, chain,
                   history>>

\* simple_graph_qa: the query in its try; the records are returned, or the
\* string "Query execution error: <error>".
SgqExecuteQuery ==
    /\ pc = "sgq_exec"
    /\ calls' = Append(calls, "db")
    /\ \/ /\ output' = Append(output, Msg("returned_records", "records"))
          /\ db_error' = db_error
       \/ \E m \in DbErrors :
            /\ db_error' = m
            /\ output' = Append(output, Msg("query_execution_error", m))
    /\ pc' = "returned"
    /\ UNCHANGED <<importable, sysVars, ocVars, exc, line, user_question, chain,
                   history>>

----------------------------------------------------------------------------
Next ==
    \/ ImportUtils
    \/ ConnectGraph
    \/ ConnectionTest
    \/ ConnectLlm
    \/ RagImportPreferred
    \/ RagConstructPreferred
    \/ RagImportCommunity
    \/ RagConstructCommunity
    \/ SetupSimpleGraphQA
    \/ DisplaySchema
    \/ SetupChainClean
    \/ SetupChainVerbose
    \/ CheckDiseases
    \/ ReadInput
    \/ CheckEmpty
    \/ Dispatch
    \/ AskMedicalQuestionClean
    \/ TestBasicQuery
    \/ ChainGenerateCypher
    \/ ChainExecuteQuery
    \/ ChainAnswer
    \/ PrintResult
    \/ Interrupt
    \/ CatchError
    \/ Goodbye
    \/ CallSimpleGraphQA
    \/ SgqGenerateCypher
    \/ SgqExecuteQuery

Spec == Init /\ [][Next]_vars

----------------------------------------------------------------------------
\* Vocabulary of the properties

\* Positions of main() inside the interactive loop.
LoopPcs == RequestPcs \cup {"read", "check_empty", "except"}
\* Positions inside setup_rag_system.
SetupPcs == {"rag_check", "rag_construct", "rag_community",
             "rag_construct_community", "rag_manual"}
\* Positions before create_optimized_chain has returned.
StartupPcs == SetupPcs \cup {"import_utils", "conn_graph", "conn_test",
                             "conn_llm", "schema", "oc_clean", "oc_verbose"}

HasMsg(k) == \E i \in 1..Len(output) : output[i].kind = k
HasAnswer == HasMsg("response") \/ HasMsg("result")
Range(f) == {f[i] : i \in 1..Len(f)}
IsPrefix(a, b) == Len(a) <= Len(b) /\ SubSeq(b, 1, Len(a)) = a
IsService(c) == c \in {"llm", "db"}
ServiceCalls == SelectSeq(calls, IsService)
AllBlank(l) == \A i \in 1..Len(l) : l[i] = " "

\* A turn of the loop that went down the fallback path has ended.
FallbackTurnEnded ==
    pc = "read" /\ calls # <<>> /\ calls[1] = "test_basic_query"
\* setup_rag_system has been entered and left (by return or by exception).
SetupEnded == attempts # <<>> /\ pc \notin SetupPcs
\* The current request ended: a loop turn, or a direct call of simple_graph_qa.
RequestEnded == calls # <<>> /\ pc \in {"read", "returned"}

----------------------------------------------------------------------------
\* C1 (as claimed): with the optimized chain unavailable, every turn with a
\* non-empty question ends with no error reported and the disclaimer printed.
C1_FallbackAnswersWithDisclaimer ==
    FallbackTurnEnded => ~HasMsg("error_processing") /\ HasMsg("disclaimer")

\* C2 (as claimed): once both connections are established, setup_rag_system
\* always returns normally and leaves graph_qa_chain set.
C2_SetupAlwaysInstallsChain ==
    (SetupEnded /\ graph /\ llm) => pc # "aborted" /\ graph_qa_chain # None

\* C3 (as claimed): the community chain is attempted after every failure of
\* the preferred one, the manual function is installed only after both chain
\* tiers were attempted, and the tier that succeeded is the one held.
C3_StrictThreeTierOrder ==
    /\ IsPrefix(attempts, <<"neo4j", "community", "manual">>)
    /\ graph_qa_chain # None => graph_qa_chain = attempts[Len(attempts)]

\* C3 (amended): the community chain is attempted exactly when the preferred
\* attempt failed with ImportError; any other failure of the preferred attempt
\* installs the manual function directly; the manual function is installed
\* only after every attempted chain tier failed; the tier that succeeded is
\* the one held in graph_qa_chain, never overwritten by a later tier.
C3_TierOrder ==
    /\ attempts \in {<<>>, <<"neo4j">>, <<"neo4j", "community">>,
                     <<"neo4j", "manual">>, <<"neo4j", "community", "manual">>}
    /\ "community" \in Range(attempts) => setup_caught[1] = "ImportError"
    /\ (SetupEnded /\ setup_caught # <<>> /\ setup_caught[1] = "ImportError")
         => "community" \in Range(attempts)
    /\ attempts = <<"neo4j", "manual">>
         => Len(setup_caught) = 1 /\ setup_caught[1] # "ImportError"
    /\ attempts = <<"neo4j", "community", "manual">> => Len(setup_caught) = 2
    /\ graph_qa_chain # None
         => /\ graph_qa_chain = attempts[Len(attempts)]
            /\ Len(setup_caught) = Len(attempts) - 1
    /\ (SetupEnded /\ graph_qa_chain = None) => pc = "aborted"

\* The manual function was installed straight after a construction failure of
\* the preferred chain, the community chain never having been attempted.
C3_Witness ==
    /\ attempts = <<"neo4j", "manual">>
    /\ setup_caught = <<"Exception">>
    /\ graph_qa_chain = "manual"
    /\ pc = "read"

\* C4: in a turn whose input line is empty after stripping, neither
\* ask_medical_question_clean nor test_basic_query is called and no call goes
\* to the language model or the database; the turn prints the 'please enter a
\* valid question' message and the loop is back at the prompt.
C4_EmptyLineRejected ==
    (pc \in LoopPcs /\ AllBlank(line) /\ (pc # "read" \/ history # <<>>))
      => /\ calls = <<>>
         /\ pc \in {"check_empty", "read"}
         /\ pc = "read" => output = <<Msg("invalid_question", "")>>

\* A line of blanks only was read and rejected; the loop is at the prompt again.
C4_Witness ==
    /\ pc = "read"
    /\ line # <<>> /\ AllBlank(line)
    /\ output = <<Msg("invalid_question", "")>>
    /\ history # <<>> /\ history[Len(history)] = "rejected"

\* A step that catches a per-question failure prints the error message with
\* the failure's text and puts the loop back at the prompt.
C5_FailureCaught ==
    (pc = "except" /\ exc.type # "KeyboardInterrupt")
      => /\ pc' = "read"
         /\ output' = Append(output, Msg("error_processing", exc.msg))
         /\ history' = Append(history, "failed")
C5_LeavesLoop == pc \in LoopPcs /\ pc' \notin LoopPcs

\* C5 (as claimed): every per-question failure is caught in the loop, reported
\* and followed by the next prompt, and the loop ends only on an interrupt.
C5_LoopEndsOnlyOnInterrupt ==
    [][/\ C5_FailureCaught
       /\ C5_LeavesLoop => exc'.type = "KeyboardInterrupt"]_vars

\* C5 (amended): every per-question failure is caught in the loop, reported
\* and followed by the next prompt; the loop ends only on an interrupt signal
\* or on end of input at the prompt (the EOFError of input(), which main does
\* not catch).
C5_LoopSurvivesFailures ==
    [][/\ C5_FailureCaught
       /\ C5_LeavesLoop =>
            \/ exc'.type = "KeyboardInterrupt"
            \/ pc = "read" /\ exc'.type = "EOFError"]_vars

\* After a failed and an answered question the loop is at the prompt again.
C5_Witness ==
    /\ pc = "read"
    /\ HasMsg("error_processing")
    /\ Len(history) >= 3
    /\ {"failed", "answered"} \subseteq Range(history)

\* The request's output carries an error message with the database's error text.
C6_ErrorShown ==
    \E i \in 1..Len(output) :
        /\ output[i].kind \in {"error_processing", "query_execution_error"}
        /\ output[i].text = db_error
\* The fallback entry point was called after the query execution of the request.
C6_FallbackTaken ==
    \E i, j \in 1..Len(calls) :
        i < j /\ calls[i] = "db" /\ calls[j] = "test_basic_query"

\* C6: a request whose query execution failed ends either with an error
\* message that embeds the database's error text or with the fallback path
\* taken, never both and never neither, on the optimized chain, the library
\* basic chain and simple_graph_qa alike; the query was executed exactly once.
C6_ExecutionErrorSurfaced ==
    (RequestEnded /\ db_error # "")
      => /\ C6_ErrorShown # C6_FallbackTaken
         /\ Len(SelectSeq(calls, LAMBDA c : c = "db")) = 1

\* A loop turn on the optimized chain ended after its query execution failed.
C6_Witness ==
    /\ pc = "read"
    /\ calls = <<"ask_medical_question_clean", "llm", "db">>
    /\ db_error \in DbErrors
    /\ C6_ErrorShown

\* C7: whenever main is inside the interactive loop, graph and llm are set
\* and the connection test query succeeded; a run in which setup_connections
\* raised has read no line and dispatched no question.
C7_NoLoopWithoutConnections ==
    /\ (pc \in LoopPcs \/ history # <<>> \/ calls # <<>> \/ line # <<>>)
         => graph /\ llm /\ conn_result = "ok"
    /\ exc.type = "ConnectionError" => pc = "aborted" /\ ~(graph /\ llm /\ conn_result = "ok")

\* The loop has read a non-empty question while holding both connections.
C7_Witness ==
    /\ pc = "dispatch"
    /\ user_question # <<>>
    /\ graph /\ llm /\ conn_result = "ok"

\* C8: once create_optimized_chain has returned, is_available() keeps its
\* value, and every dispatched question takes the path that value selects.
C8_PathFixedAtStartup ==
    /\ [][pc \notin StartupPcs => is_available' = is_available]_vars
    /\ [](\A i \in 1..Len(calls) :
            /\ calls[i] = "ask_medical_question_clean" => is_available
            /\ calls[i] = "test_basic_query" => ~is_available)

\* A question is dispatched to the optimized path after an earlier one failed.
C8_Witness ==
    /\ pc = "ask_clean"
    /\ history # <<>> /\ history[1] = "failed"
    /\ is_available

\* C9: the service calls of a request are a prefix of: language model
\* (query synthesis), database (execution), language model (answer
\* synthesis), so at most two model calls and one query execution, never a
\* second execution; whenever the loop is at the prompt, the request before
\* it has been answered or reported as failed.
C9_CallBudget ==
    /\ IsPrefix(ServiceCalls, <<"llm", "db", "llm">>)
    /\ (pc = "read" /\ calls # <<>>)
         => /\ HasAnswer # HasMsg("error_processing")
            /\ history # <<>>
            /\ history[Len(history)] \in {"answered", "failed"}
    /\ pc = "check_empty" => calls = <<>> /\ output = <<>>

\* A request has made all three service calls.
C9_Witness ==
    /\ pc = "invoke_returned"
    /\ calls = <<"ask_medical_question_clean", "llm", "db", "llm">>

\* C10: in a loop turn, the response block / result is in the output only if
\* the whole chain invocation returned (all three steps made, no error text,
\* no exception); a turn that failed shows the error message and no answer,
\* and no turn's output holds both.
C10_NoAnswerOnFailure ==
    pc \in LoopPcs =>
      /\ HasAnswer => /\ ServiceCalls = <<"llm", "db", "llm">>
                      /\ db_error = ""
                      /\ exc = NoExc
                      /\ pc = "read"
                      /\ ~HasMsg("error_processing")
      /\ pc = "except" => ~HasAnswer
      /\ (pc = "read" /\ history # <<>> /\ history[Len(history)] = "failed")
           => HasMsg("error_processing") /\ ~HasAnswer

\* A turn failed at answer synthesis, after synthesis and execution succeeded.
C10_Witness ==
    /\ pc = "read"
    /\ ServiceCalls = <<"llm", "db", "llm">>
    /\ HasMsg("error_processing")
    /\ ~HasAnswer

\* C11: once OptimizedMedicalChain is constructed, optimized_chain and
\* optimized_chain_verbose are both set or both None in every later state;
\* ask_medical_question_clean therefore never invokes the non-verbose chain:
\* whenever it has picked a chain it is the verbose one, and while it has
\* picked none, no call has gone to the language model or the database.
C11_ChainsSetTogether ==
    /\ pc \notin StartupPcs => optimized_chain = optimized_chain_verbose
    /\ chain # "clean"
    /\ "ask_medical_question_clean" \in Range(calls)
         => IF chain = None
              THEN ServiceCalls = <<>>
              ELSE chain = "verbose" /\ optimized_chain /\ optimized_chain_verbose

\* ask_medical_question_clean is invoking the verbose chain, both chains set.
C11_Witness ==
    /\ pc = "invoke_synth"
    /\ calls = <<"ask_medical_question_clean">>
    /\ chain = "verbose"
    /\ optimized_chain /\ optimized_chain_verbose

====
